---- MODULE Spec2Model ----
(***************************************************************************)
(* Base64URL codec (base64url/mod.ts) and the node:buffer shim            *)
(* (base64url/buffer-polyfill.ts).                                         *)
(*                                                                         *)
(* A JavaScript string is a sequence of UTF-16 code units (0..65535); a   *)
(* Uint8Array is a sequence of bytes (0..255).  The host functions the    *)
(* code calls (btoa, atob, TextEncoder, TextDecoder, JSON.stringify,      *)
(* JSON.parse, String.fromCharCode, the original Buffer.from and          *)
(* Buffer.prototype.toString) are modelled after their standards (WHATWG  *)
(* HTML forgiving-base64, WHATWG Encoding, ECMA-262, Node's buffer        *)
(* documentation) at the place the code calls them.                        *)
(***************************************************************************)
EXTENDS Integers, Sequences, FiniteSets, TLC

VARIABLES
  input,   \* the value the caller started from
  val,     \* the value the caller holds now: [t |-> type, v |-> payload]
  hist,    \* the functions applied so far, oldest first
  handed,  \* the string the last decode handed to atob (<<>> before any)
  call,    \* the last call of a patched Buffer function, as the caller made it
  host     \* the calls the patched function made during that call, in order

vars == <<input, val, hist, handed, call, host>>

----------------------------------------------------------------------------
(* Characters *)

Ascii ==
  <<" ", "!", "QUOTE", "#", "$", "%", "&", "'", "(", ")", "*", "+", ",", "-", ".", "/",
    "0", "1", "2", "3", "4", "5", "6", "7", "8", "9", ":", ";", "<", "=", ">", "?",
    "@", "A", "B", "C", "D", "E", "F", "G", "H", "I", "J", "K", "L", "M", "N", "O",
    "P", "Q", "R", "S", "T", "U", "V", "W", "X", "Y", "Z", "[", "BACKSLASH", "]", "^", "_",
    "BACKTICK", "a", "b", "c", "d", "e", "f", "g", "h", "i", "j", "k", "l", "m", "n", "o",
    "p", "q", "r", "s", "t", "u", "v", "w", "x", "y", "z", "{", "|", "}", "~">>

\* The code unit of a printable ASCII character: Ord["A"] = 65.  The three
\* characters a TLA+ string cannot hold plainly go by name.
Ord == [c \in {Ascii[i] : i \in 1..Len(Ascii)} |->
          31 + (CHOOSE i \in 1..Len(Ascii) : Ascii[i] = c)]

Min(a, b) == IF a < b THEN a ELSE b

\* Outcomes of a call: a returned value or a thrown error.
Ok(t, v) == [t |-> t, v |-> v]
Throw(e) == [t |-> "throw", v |-> e]
IsThrow(r) == r.t = "throw"

----------------------------------------------------------------------------
(* Host: standard Base64 (btoa / atob) *)

\* The standard Base64 alphabet, RFC 4648 table 1: sextet -> code unit.
B64Char(n) ==
  IF n < 26 THEN Ord["A"] + n
  ELSE IF n < 52 THEN Ord["a"] + (n - 26)
  ELSE IF n < 62 THEN Ord["0"] + (n - 52)
  ELSE IF n = 62 THEN Ord["+"] ELSE Ord["/"]

B64Alphabet == {B64Char(n) : n \in 0..63}

B64Index(c) == CHOOSE n \in 0..63 : B64Char(n) = c

\* btoa(data): InvalidCharacterError when a code unit is above 0xFF, else the
\* padded standard Base64 of the code units taken as bytes.
btoa(s) ==
  IF \E i \in 1..Len(s) : s[i] > 255 THEN Throw("InvalidCharacterError")
  ELSE
    LET n == Len(s)
        at(i) == IF i <= n THEN s[i] ELSE 0
        out == [k \in 1..(4 * ((n + 2) \div 3)) |->
                 LET g == (k - 1) \div 4
                     p == (k - 1) % 4
                     b0 == at(3 * g + 1)
                     b1 == at(3 * g + 2)
                     b2 == at(3 * g + 3)
                 IN CASE p = 0 -> B64Char(b0 \div 4)
                      [] p = 1 -> B64Char(((b0 % 4) * 16) + (b1 \div 16))
                      [] p = 2 -> IF 3 * g + 2 > n THEN Ord["="]
                                  ELSE B64Char(((b1 % 16) * 4) + (b2 \div 64))
                      [] p = 3 -> IF 3 * g + 3 > n THEN Ord["="]
                                  ELSE B64Char(b2 % 64)]
    IN Ok("str", out)

\* ASCII whitespace: TAB, LF, FF, CR, SPACE.
IsAsciiWhitespace(c) == c \in {9, 10, 12, 13, 32}

\* atob(data), the forgiving-base64 decode: strip ASCII whitespace; when the
\* length is a multiple of 4 drop one or two trailing '='; fail on length
\* mod 4 = 1 and on any code unit outside the standard alphabet; decode the
\* sextets, discarding the 2 or 4 leftover bits.
atobLenient(data) ==
  LET d1 == SelectSeq(data, LAMBDA c : ~IsAsciiWhitespace(c))
      v == [i \in 1..Len(d1) |-> IF d1[i] \in B64Alphabet THEN B64Index(d1[i]) ELSE 0]
      out == [j \in 1..((Len(d1) * 6) \div 8) |->
               LET q == ((8 * (j - 1)) \div 6) + 1
                   r == (8 * (j - 1)) % 6
               IN CASE r = 0 -> (v[q] * 4) + (v[q + 1] \div 16)
                    [] r = 2 -> ((v[q] % 16) * 16) + (v[q + 1] \div 4)
                    [] r = 4 -> ((v[q] % 4) * 64) + v[q + 1]]
  IN Ok("str", out)

atob(data) ==
  LET d1 == SelectSeq(data, LAMBDA c : ~IsAsciiWhitespace(c))
      n1 == Len(d1)
      strip == IF n1 % 4 = 0 /\ n1 > 0 /\ d1[n1] = Ord["="]
               THEN (IF d1[n1 - 1] = Ord["="] THEN 2 ELSE 1)
               ELSE 0
      d2 == SubSeq(d1, 1, n1 - strip)
      n2 == Len(d2)
      v == [i \in 1..n2 |-> B64Index(d2[i])]
      out == [j \in 1..((n2 * 6) \div 8) |->
               LET q == ((8 * (j - 1)) \div 6) + 1
                   r == (8 * (j - 1)) % 6
               IN CASE r = 0 -> (v[q] * 4) + (v[q + 1] \div 16)
                    [] r = 2 -> ((v[q] % 16) * 16) + (v[q + 1] \div 4)
                    [] r = 4 -> ((v[q] % 4) * 64) + v[q + 1]]
  IN IF n2 % 4 = 1 THEN Throw("InvalidCharacterError")
     ELSE IF \E i \in 1..n2 : d2[i] \notin B64Alphabet
          THEN Throw("InvalidCharacterError")
          ELSE Ok("str", out)

----------------------------------------------------------------------------
(* Host: UTF-8 (TextEncoder / TextDecoder) *)

IsHighSurrogate(c) == c >= 55296 /\ c <= 56319   \* D800..DBFF
IsLowSurrogate(c) == c >= 56320 /\ c <= 57343    \* DC00..DFFF

\* A JavaScript string as scalar values (the USVString conversion): a
\* surrogate pair is one code point, a lone surrogate becomes U+FFFD.
RECURSIVE ToScalars(_, _)
ToScalars(s, i) ==
  IF i > Len(s) THEN <<>>
  ELSE IF IsHighSurrogate(s[i]) /\ i < Len(s) /\ IsLowSurrogate(s[i + 1])
       THEN <<65536 + ((s[i] - 55296) * 1024) + (s[i + 1] - 56320)>>
            \o ToScalars(s, i + 2)
       ELSE IF IsHighSurrogate(s[i]) \/ IsLowSurrogate(s[i])
            THEN <<65533>> \o ToScalars(s, i + 1)
            ELSE <<s[i]>> \o ToScalars(s, i + 1)

\* The UTF-8 bytes of one scalar value.
Utf8Bytes(cp) ==
  IF cp < 128 THEN <<cp>>
  ELSE IF cp < 2048 THEN <<192 + (cp \div 64), 128 + (cp % 64)>>
  ELSE IF cp < 65536
       THEN <<224 + (cp \div 4096), 128 + ((cp \div 64) % 64), 128 + (cp % 64)>>
       ELSE <<240 + (cp \div 262144), 128 + ((cp \div 4096) % 64),
              128 + ((cp \div 64) % 64), 128 + (cp % 64)>>

RECURSIVE Flatten(_)
Flatten(ss) == IF ss = <<>> THEN <<>> ELSE Head(ss) \o Flatten(Tail(ss))

\* new TextEncoder().encode(s)
TextEncode(s) ==
  LET cps == ToScalars(s, 1)
  IN Flatten([i \in 1..Len(cps) |-> Utf8Bytes(cps[i])])

\* The WHATWG UTF-8 decoder with error mode "replacement": the scalar values
\* of a byte sequence, U+FFFD for every ill-formed subsequence.
RECURSIVE Utf8Decode(_, _, _, _, _, _, _)
Utf8Decode(bytes, i, cp, seen, needed, lo, hi) ==
  IF i > Len(bytes) THEN (IF needed # 0 THEN <<65533>> ELSE <<>>)
  ELSE
    LET b == bytes[i]
    IN IF needed = 0 THEN
         IF b <= 127 THEN <<b>> \o Utf8Decode(bytes, i + 1, 0, 0, 0, 128, 191)
         ELSE IF b >= 194 /\ b <= 223
              THEN Utf8Decode(bytes, i + 1, b % 32, 0, 1, 128, 191)
         ELSE IF b >= 224 /\ b <= 239
              THEN Utf8Decode(bytes, i + 1, b % 16, 0, 2,
                              IF b = 224 THEN 160 ELSE 128,
                              IF b = 237 THEN 159 ELSE 191)
         ELSE IF b >= 240 /\ b <= 244
              THEN Utf8Decode(bytes, i + 1, b % 8, 0, 3,
                              IF b = 240 THEN 144 ELSE 128,
                              IF b = 244 THEN 143 ELSE 191)
         ELSE <<65533>> \o Utf8Decode(bytes, i + 1, 0, 0, 0, 128, 191)
       ELSE IF b < lo \/ b > hi
            THEN <<65533>> \o Utf8Decode(bytes, i, 0, 0, 0, 128, 191)
            ELSE IF seen + 1 # needed
                 THEN Utf8Decode(bytes, i + 1, (cp * 64) + (b % 64), seen + 1,
                                 needed, 128, 191)
                 ELSE <<(cp * 64) + (b % 64)>>
                      \o Utf8Decode(bytes, i + 1, 0, 0, 0, 128, 191)

\* Scalar values as UTF-16 code units.
Utf16Units(cp) ==
  IF cp < 65536 THEN <<cp>>
  ELSE <<55296 + ((cp - 65536) \div 1024), 56320 + ((cp - 65536) % 1024)>>

FromScalars(cps) == Flatten([i \in 1..Len(cps) |-> Utf16Units(cps[i])])

\* new TextDecoder().decode(bytes): encoding utf-8, fatal false, ignoreBOM
\* false, so a leading U+FEFF (byte order mark) is dropped from the output.
TextDecodeKeepBOM(bytes) ==
  FromScalars(Utf8Decode(bytes, 1, 0, 0, 0, 128, 191))

TextDecode(bytes) ==
  LET cps == Utf8Decode(bytes, 1, 0, 0, 0, 128, 191)
  IN FromScalars(IF cps # <<>> /\ cps[1] = 65279 THEN Tail(cps) ELSE cps)

----------------------------------------------------------------------------
(* base64url/mod.ts *)

chunkSize == 8192

\* String.fromCharCode(n): the code unit ToUint16(n).
fromCharCode(n) == n % 65536

\* TypedArray.prototype.slice(a, b) for 0 <= a <= b.
slice(bytes, a, b) == SubSeq(bytes, a + 1, Min(b, Len(bytes)))

\* s.replace(/x/g, y) for single characters x and y.
replaceAll(s, x, y) == [i \in 1..Len(s) |-> IF s[i] = x THEN y ELSE s[i]]

\* s.replace(/x/g, "")
removeAll(s, x) == SelectSeq(s, LAMBDA c : c # x)


\* binaryStringFrom with the chunk cut one byte short.
RECURSIVE binaryStringShortChunk(_, _, _)
binaryStringShortChunk(bytes, i, binaryString) ==
  IF i < Len(bytes)
  THEN LET chunk == slice(bytes, i, i + chunkSize - 1)
       IN binaryStringShortChunk(bytes, i + chunkSize,
            binaryString \o [j \in 1..Len(chunk) |-> fromCharCode(chunk[j])])
  ELSE binaryString

\* encode, lines 34-42: the binary string, built chunk by chunk.
RECURSIVE binaryStringFrom(_, _, _)
binaryStringFrom(bytes, i, binaryString) ==
  IF i < Len(bytes)
  THEN LET chunk == slice(bytes, i, i + chunkSize)
       IN binaryStringFrom(bytes, i + chunkSize,
            binaryString \o [j \in 1..Len(chunk) |-> fromCharCode(chunk[j])])
  ELSE binaryString


\* toBase64Url without the removal of the padding.
toBase64UrlKeepPadding(base64) ==
  replaceAll(replaceAll(base64, Ord["+"], Ord["-"]), Ord["/"], Ord["_"])

\* encode, lines 46-49: Base64 to Base64URL.
toBase64Url(base64) ==
  removeAll(replaceAll(replaceAll(base64, Ord["+"], Ord["-"]),
                       Ord["/"], Ord["_"]),
            Ord["="])

\* encode(input), input a string or a Uint8Array (a Buffer is one).
encode(inp) ==
  LET bytes == IF inp.t = "str" THEN TextEncode(inp.v) ELSE inp.v
      base64 == btoa(binaryStringFrom(bytes, 0, <<>>))
  IN IF IsThrow(base64) THEN base64
     ELSE Ok("str", toBase64Url(base64.v))


\* decodePadded without the outer "% 4": four '=' when none is needed.
decodePaddedFour(inp) ==
  LET base64 == replaceAll(replaceAll(inp, Ord["-"], Ord["+"]),
                           Ord["_"], Ord["/"])
      paddingLength == 4 - (Len(base64) % 4)
  IN base64 \o [i \in 1..paddingLength |-> Ord["="]]

\* decode, lines 69-73: the string handed to atob.
decodePadded(inp) ==
  LET base64 == replaceAll(replaceAll(inp, Ord["-"], Ord["+"]),
                           Ord["_"], Ord["/"])
      paddingLength == (4 - (Len(base64) % 4)) % 4
  IN base64 \o [i \in 1..paddingLength |-> Ord["="]]


\* decode over a Base64 decoder that validates nothing, and with the
\* alphabet left as it came.
decodeLenient(inp) ==
  LET binaryString == atobLenient(decodePadded(inp))
  IN Ok("bytes", [i \in 1..Len(binaryString.v) |-> binaryString.v[i] % 256])

decodeNoSubstitution(inp) ==
  LET paddingLength == (4 - (Len(inp) % 4)) % 4
      binaryString == atob(inp \o [i \in 1..paddingLength |-> Ord["="]])
  IN IF IsThrow(binaryString) THEN binaryString
     ELSE Ok("bytes", [i \in 1..Len(binaryString.v) |-> binaryString.v[i] % 256])

\* decode(input)
decode(inp) ==
  LET binaryString == atob(decodePadded(inp))
  IN IF IsThrow(binaryString) THEN binaryString
     ELSE Ok("bytes", [i \in 1..Len(binaryString.v) |-> binaryString.v[i] % 256])

\* decodeToString(input)
decodeToString(inp) ==
  LET bytes == decode(inp)
  IN IF IsThrow(bytes) THEN bytes ELSE Ok("str", TextDecode(bytes.v))

----------------------------------------------------------------------------
(* Host: JSON.stringify / JSON.parse (ECMA-262 25.5, ECMA-404) *)
(* Numbers are integers; object keys are not array indices, so an object's *)
(* properties keep their insertion order.                                  *)

JNull == [k |-> "null"]
JBool(b) == [k |-> "bool", b |-> b]
JNum(n) == [k |-> "num", n |-> n]
JStr(str) == [k |-> "str", s |-> str]
JArr(elems) == [k |-> "arr", a |-> elems]
\* properties: a sequence of [key |-> string, val |-> value]
JObj(props) == [k |-> "obj", o |-> props]

Chars(names) == [i \in 1..Len(names) |-> Ord[names[i]]]

HexDigit(d) == IF d < 10 THEN Ord["0"] + d ELSE Ord["a"] + (d - 10)

\* UnicodeEscape(C): \uXXXX, lowercase hexadecimal.
UnicodeEscape(c) ==
  <<Ord["BACKSLASH"], Ord["u"], HexDigit(c \div 4096), HexDigit((c \div 256) % 16),
    HexDigit((c \div 16) % 16), HexDigit(c % 16)>>

\* QuoteJSONString, one code point at a time: the two-character escapes,
\* \uXXXX for the other control characters and for lone surrogates, the
\* code units themselves otherwise.
RECURSIVE QuoteBody(_, _)
QuoteBody(str, i) ==
  IF i > Len(str) THEN <<>>
  ELSE LET c == str[i]
       IN IF IsHighSurrogate(c) /\ i < Len(str) /\ IsLowSurrogate(str[i + 1])
          THEN <<c, str[i + 1]>> \o QuoteBody(str, i + 2)
          ELSE (CASE c = 8 -> <<Ord["BACKSLASH"], Ord["b"]>>
                  [] c = 9 -> <<Ord["BACKSLASH"], Ord["t"]>>
                  [] c = 10 -> <<Ord["BACKSLASH"], Ord["n"]>>
                  [] c = 12 -> <<Ord["BACKSLASH"], Ord["f"]>>
                  [] c = 13 -> <<Ord["BACKSLASH"], Ord["r"]>>
                  [] c = Ord["QUOTE"] -> <<Ord["BACKSLASH"], Ord["QUOTE"]>>
                  [] c = Ord["BACKSLASH"] -> <<Ord["BACKSLASH"], Ord["BACKSLASH"]>>
                  [] OTHER -> IF c < 32 \/ IsHighSurrogate(c) \/ IsLowSurrogate(c)
                              THEN UnicodeEscape(c)
                              ELSE <<c>>)
               \o QuoteBody(str, i + 1)

QuoteJSONString(str) == <<Ord["QUOTE"]>> \o QuoteBody(str, 1) \o <<Ord["QUOTE"]>>

\* Number::toString of an integer.
RECURSIVE Digits(_)
Digits(n) ==
  IF n < 10 THEN <<Ord["0"] + n>> ELSE Digits(n \div 10) \o <<Ord["0"] + (n % 10)>>

NumberToString(n) == IF n < 0 THEN <<Ord["-"]>> \o Digits(0 - n) ELSE Digits(n)

\* SerializeJSONProperty / SerializeJSONArray / SerializeJSONObject, no gap.
RECURSIVE Stringify(_)
RECURSIVE StringifyElems(_, _)
RECURSIVE StringifyProps(_, _)
Stringify(v) ==
  CASE v.k = "null" -> Chars(<<"n", "u", "l", "l">>)
    [] v.k = "bool" -> IF v.b THEN Chars(<<"t", "r", "u", "e">>)
                       ELSE Chars(<<"f", "a", "l", "s", "e">>)
    [] v.k = "num" -> NumberToString(v.n)
    [] v.k = "str" -> QuoteJSONString(v.s)
    [] v.k = "arr" -> <<Ord["["]>> \o StringifyElems(v.a, 1) \o <<Ord["]"]>>
    [] v.k = "obj" -> <<Ord["{"]>> \o StringifyProps(v.o, 1) \o <<Ord["}"]>>
StringifyElems(a, i) ==
  IF i > Len(a) THEN <<>>
  ELSE (IF i > 1 THEN <<Ord[","]>> ELSE <<>>)
       \o Stringify(a[i]) \o StringifyElems(a, i + 1)
StringifyProps(o, i) ==
  IF i > Len(o) THEN <<>>
  ELSE (IF i > 1 THEN <<Ord[","]>> ELSE <<>>)
       \o QuoteJSONString(o[i].key) \o <<Ord[":"]>> \o Stringify(o[i].val)
       \o StringifyProps(o, i + 1)

\* JSON.stringify(value) for a value of the JSON data model.
JSONstringify(v) == Stringify(v)

\* The parser: each Parse* takes the text and a position and returns
\* [ok, v, i]: whether it matched, the value, and the next position.
Fail == [ok |-> FALSE, v |-> JNull, i |-> 0]
Got(v, i) == [ok |-> TRUE, v |-> v, i |-> i]

IsJSONWhitespace(c) == c \in {9, 10, 13, 32}
IsDigit(c) == c >= Ord["0"] /\ c <= Ord["9"]

RECURSIVE SkipWs(_, _)
SkipWs(t, i) == IF i <= Len(t) /\ IsJSONWhitespace(t[i]) THEN SkipWs(t, i + 1) ELSE i

HasAt(t, i, lit) ==
  /\ i + Len(lit) - 1 <= Len(t)
  /\ \A j \in 1..Len(lit) : t[i + j - 1] = lit[j]

IsHex(c) ==
  \/ IsDigit(c)
  \/ (c >= Ord["a"] /\ c <= Ord["f"])
  \/ (c >= Ord["A"] /\ c <= Ord["F"])

HexValue(c) ==
  IF IsDigit(c) THEN c - Ord["0"]
  ELSE IF c >= Ord["a"] THEN 10 + (c - Ord["a"]) ELSE 10 + (c - Ord["A"])

\* The characters of a string literal after its opening quote.
RECURSIVE ParseStringBody(_, _, _)
ParseStringBody(t, i, acc) ==
  IF i > Len(t) THEN Fail
  ELSE IF t[i] = Ord["QUOTE"] THEN Got(acc, i + 1)
  ELSE IF t[i] < 32 THEN Fail
  ELSE IF t[i] # Ord["BACKSLASH"] THEN ParseStringBody(t, i + 1, Append(acc, t[i]))
  ELSE IF i + 1 > Len(t) THEN Fail
  ELSE LET e == t[i + 1]
       IN CASE e = Ord["QUOTE"] -> ParseStringBody(t, i + 2, Append(acc, e))
            [] e = Ord["BACKSLASH"] -> ParseStringBody(t, i + 2, Append(acc, e))
            [] e = Ord["/"] -> ParseStringBody(t, i + 2, Append(acc, e))
            [] e = Ord["b"] -> ParseStringBody(t, i + 2, Append(acc, 8))
            [] e = Ord["f"] -> ParseStringBody(t, i + 2, Append(acc, 12))
            [] e = Ord["n"] -> ParseStringBody(t, i + 2, Append(acc, 10))
            [] e = Ord["r"] -> ParseStringBody(t, i + 2, Append(acc, 13))
            [] e = Ord["t"] -> ParseStringBody(t, i + 2, Append(acc, 9))
            [] e = Ord["u"] ->
                 IF i + 5 <= Len(t) /\ \A j \in 2..5 : IsHex(t[i + j])
                 THEN ParseStringBody(t, i + 6,
                        Append(acc, (HexValue(t[i + 2]) * 4096) + (HexValue(t[i + 3]) * 256)
                                    + (HexValue(t[i + 4]) * 16) + HexValue(t[i + 5])))
                 ELSE Fail
            [] OTHER -> Fail

RECURSIVE ParseDigits(_, _, _)
ParseDigits(t, i, acc) ==
  IF i <= Len(t) /\ IsDigit(t[i])
  THEN ParseDigits(t, i + 1, (acc * 10) + (t[i] - Ord["0"]))
  ELSE Got(acc, i)

\* An integer literal: -? (0 | [1-9][0-9]*).
ParseNumber(t, i) ==
  LET neg == i <= Len(t) /\ t[i] = Ord["-"]
      j == IF neg THEN i + 1 ELSE i
  IN IF j > Len(t) \/ ~IsDigit(t[j]) THEN Fail
     ELSE LET d == IF t[j] = Ord["0"] THEN Got(0, j + 1) ELSE ParseDigits(t, j, 0)
          IN Got(JNum(IF neg THEN 0 - d.v ELSE d.v), d.i)

\* CreateDataProperty on the object under construction: a repeated key
\* keeps its place and takes the later value.
PutProp(props, key, v) ==
  IF \E j \in 1..Len(props) : props[j].key = key
  THEN [j \in 1..Len(props) |->
          IF props[j].key = key THEN [key |-> key, val |-> v] ELSE props[j]]
  ELSE Append(props, [key |-> key, val |-> v])

RECURSIVE ParseValue(_, _)
RECURSIVE ParseElems(_, _, _)
RECURSIVE ParseProps(_, _, _)
\* A value, leading whitespace skipped.
ParseValue(t, i0) ==
  LET i == SkipWs(t, i0)
  IN IF i > Len(t) THEN Fail
     ELSE IF HasAt(t, i, Chars(<<"n", "u", "l", "l">>)) THEN Got(JNull, i + 4)
     ELSE IF HasAt(t, i, Chars(<<"t", "r", "u", "e">>)) THEN Got(JBool(TRUE), i + 4)
     ELSE IF HasAt(t, i, Chars(<<"f", "a", "l", "s", "e">>)) THEN Got(JBool(FALSE), i + 5)
     ELSE IF t[i] = Ord["QUOTE"]
          THEN LET r == ParseStringBody(t, i + 1, <<>>)
               IN IF r.ok THEN Got(JStr(r.v), r.i) ELSE Fail
     ELSE IF t[i] = Ord["["]
          THEN LET j == SkipWs(t, i + 1)
               IN IF j <= Len(t) /\ t[j] = Ord["]"] THEN Got(JArr(<<>>), j + 1)
                  ELSE ParseElems(t, j, <<>>)
     ELSE IF t[i] = Ord["{"]
          THEN LET j == SkipWs(t, i + 1)
               IN IF j <= Len(t) /\ t[j] = Ord["}"] THEN Got(JObj(<<>>), j + 1)
                  ELSE ParseProps(t, j, <<>>)
     ELSE ParseNumber(t, i)
\* The elements of a non-empty array, from the first element on.
ParseElems(t, i, acc) ==
  LET e == ParseValue(t, i)
      j == SkipWs(t, e.i)
  IN IF ~e.ok \/ j > Len(t) THEN Fail
     ELSE IF t[j] = Ord[","] THEN ParseElems(t, j + 1, Append(acc, e.v))
     ELSE IF t[j] = Ord["]"] THEN Got(JArr(Append(acc, e.v)), j + 1)
     ELSE Fail
\* The members of a non-empty object, from the first key on.
ParseProps(t, i0, acc) ==
  LET i == SkipWs(t, i0)
  IN IF i > Len(t) \/ t[i] # Ord["QUOTE"] THEN Fail
     ELSE LET key == ParseStringBody(t, i + 1, <<>>)
              c == SkipWs(t, key.i)
          IN IF ~key.ok \/ c > Len(t) \/ t[c] # Ord[":"] THEN Fail
             ELSE LET e == ParseValue(t, c + 1)
                      j == SkipWs(t, e.i)
                  IN IF ~e.ok \/ j > Len(t) THEN Fail
                     ELSE IF t[j] = Ord[","]
                          THEN ParseProps(t, j + 1, PutProp(acc, key.v, e.v))
                     ELSE IF t[j] = Ord["}"]
                          THEN Got(JObj(PutProp(acc, key.v, e.v)), j + 1)
                     ELSE Fail

\* JSON.parse(text): the value, or SyntaxError.
JSONparse(t) ==
  LET r == ParseValue(t, 1)
  IN IF r.ok /\ SkipWs(t, r.i) > Len(t) THEN Ok("json", r.v)
     ELSE Throw("SyntaxError")

\* encodeJSON(obj)
encodeJSON(obj) == encode(Ok("str", JSONstringify(obj)))


\* decodeJSON that reads the decoded bytes as one code unit each instead of
\* as UTF-8.
decodeJSONBinary(inp) ==
  LET bytes == decode(inp)
  IN IF IsThrow(bytes) THEN bytes ELSE JSONparse(bytes.v)

\* decodeJSON(input)
decodeJSON(inp) ==
  LET text == decodeToString(inp)
  IN IF IsThrow(text) THEN text ELSE JSONparse(text.v)

----------------------------------------------------------------------------
(* Host: node:buffer, the original Buffer.from and Buffer.prototype.toString *)

\* Arguments: a value is Ok("str", units), Ok("bytes", bytes) (a Uint8Array),
\* Ok("abuf", bytes) (an ArrayBuffer) or Ok("buf", bytes) (a Buffer); an
\* encoding name is Name(_), a number Num(_), an absent argument Undefined.
Undefined == [t |-> "undefined", v |-> 0]
Name(e) == [t |-> "name", v |-> e]
Num(n) == [t |-> "num", v |-> n]

\* One call: the function, its receiver, and the arguments as passed.
Call(fn, this, args) == [fn |-> fn, this |-> this, args |-> args]

\* An argument list as the callee sees it: absent arguments are undefined.
Pad3(args) == [i \in 1..3 |-> IF i <= Len(args) THEN args[i] ELSE Undefined]

\* Two hexadecimal digits per byte.
HexSlice(bytes) ==
  [i \in 1..(2 * Len(bytes)) |->
     IF i % 2 = 1 THEN HexDigit(bytes[(i + 1) \div 2] \div 16)
     ELSE HexDigit(bytes[i \div 2] % 16)]

\* The host's Buffer.from(value, encodingOrOffset, length): a string is
\* encoded by name (utf8 when it is no string; length is ignored), a
\* Uint8Array or Buffer is copied, an ArrayBuffer is viewed from byteOffset
\* for length bytes.
originalFrom(value, encodingOrOffset, length) ==
  CASE value.t = "str" ->
         IF encodingOrOffset.t # "name" THEN Ok("buf", TextEncode(value.v))
         ELSE IF encodingOrOffset.v = "utf8" THEN Ok("buf", TextEncode(value.v))
         ELSE IF encodingOrOffset.v = "latin1"
              THEN Ok("buf", [i \in 1..Len(value.v) |-> value.v[i] % 256])
              ELSE Throw("TypeError")
    [] value.t \in {"bytes", "buf"} -> Ok("buf", value.v)
    [] value.t = "abuf" ->
         LET byteOffset == IF encodingOrOffset.t = "num" THEN encodingOrOffset.v ELSE 0
             maxLength == Len(value.v) - byteOffset
             len == IF length.t = "num" THEN length.v ELSE maxLength
         IN IF maxLength < 0 \/ len > maxLength THEN Throw("RangeError")
            ELSE Ok("buf", SubSeq(value.v, byteOffset + 1, byteOffset + len))

\* The host's Buffer.prototype.toString(encoding, start, end): the range is
\* clamped to the buffer and an empty range gives "" before the encoding is
\* looked at; utf8 when no encoding is given.
originalToString(this, encoding, start, end) ==
  LET len == Len(this.v)
      s == IF start.t = "num" THEN start.v ELSE 0
      e == IF end.t = "num" /\ end.v <= len THEN end.v ELSE len
      part == SubSeq(this.v, s + 1, e)
  IN IF s >= len /\ start.t = "num" /\ s > 0 THEN Ok("str", <<>>)
     ELSE IF e <= s THEN Ok("str", <<>>)
     ELSE IF encoding.t # "name" THEN Ok("str", TextDecodeKeepBOM(part))
     ELSE IF encoding.v = "utf8" THEN Ok("str", TextDecodeKeepBOM(part))
     ELSE IF encoding.v = "latin1" THEN Ok("str", part)
     ELSE IF encoding.v = "hex" THEN Ok("str", HexSlice(part))
     ELSE Throw("TypeError")

----------------------------------------------------------------------------
(* base64url/buffer-polyfill.ts *)

\* What a patched function did: its outcome and the calls it made, in order.
Did(ret, calls) == [ret |-> ret, calls |-> calls]


\* Buffer.from without the type check of lines 33 and 38-40: a value that is
\* no string goes on to the original factory.
BufferFromUnchecked(this, value, encodingOrOffset, length) ==
  IF encodingOrOffset.t = "name" /\ encodingOrOffset.v = "base64url"
     /\ value.t = "str"
  THEN LET decoded == decode(value.v)
           called == <<Call("decode", "module", <<value>>)>>
       IN IF IsThrow(decoded) THEN Did(decoded, called)
          ELSE Did(originalFrom(decoded, Undefined, Undefined),
                   called \o <<Call("originalFrom", "Buffer", <<decoded, Undefined>>)>>)
  ELSE Did(originalFrom(value, encodingOrOffset, length),
           <<Call("originalFrom", this, <<value, encodingOrOffset, length>>)>>)

\* The patched Buffer.from, lines 26-48.
RECURSIVE BufferFrom(_, _, _, _)
BufferFrom(this, value, encodingOrOffset, length) ==
  IF encodingOrOffset.t = "name" /\ encodingOrOffset.v = "base64url"
  THEN IF value.t = "str"
       THEN LET decoded == decode(value.v)
                called == <<Call("decode", "module", <<value>>)>>
            IN IF IsThrow(decoded) THEN Did(decoded, called)
               ELSE LET inner == BufferFrom("Buffer", decoded, Undefined, Undefined)
                    IN Did(inner.ret, called \o inner.calls)
       ELSE Did(Throw("TypeError"), <<>>)
  ELSE IF encodingOrOffset.t = "num"
       THEN Did(originalFrom(value, encodingOrOffset, length),
                <<Call("originalFrom", this, <<value, encodingOrOffset, length>>)>>)
       ELSE Did(originalFrom(value, encodingOrOffset, Undefined),
                <<Call("originalFrom", this, <<value, encodingOrOffset>>)>>)

\* The patched Buffer.prototype.toString, lines 52-60: it declares the
\* encoding alone, so further arguments of the caller are not seen.
BufferToString(this, encoding, start, end) ==
  IF encoding.t = "name" /\ encoding.v = "base64url"
  THEN Did(encode(Ok("bytes", this.v)),
           <<Call("encode", "module", <<Ok("bytes", this.v)>>)>>)
  ELSE Did(originalToString(this, encoding, Undefined, Undefined),
           <<Call("originalToString", this, <<encoding>>)>>)

----------------------------------------------------------------------------
(* The values a caller starts from *)

MaxByteLen == 3
MaxTextLen == 3
MaxB64Len == 4
MaxChunks == 2
\* Longest value the caller hands to the patched Buffer functions.
MaxShimLen == 3
JsonDepth == 2
\* Longest text the caller hands to decodeToString or decodeJSON; decode
\* itself takes texts of every length.
MaxDecodeLen == 64

SeqsUpTo(S, n) == UNION {[1..k -> S] : k \in 0..n}

\* Bytes whose sextets reach both ends of the alphabet: 251, 255 encode to
\* '+' and '/' in standard Base64.
ByteVals == {0, 65, 128, 251, 255}

\* A byte sequence of length n that depends on the position, with a period
\* (251) that does not divide the chunk size.
PatternBytes(n, seed) == [i \in 1..n |-> ((i % 251) + seed) % 256]

LargeBytes ==
  {PatternBytes((k * chunkSize) + d, 250) : k \in 1..MaxChunks, d \in {-1, 0, 1}}

BytesInputs == SeqsUpTo(ByteVals, MaxByteLen) \cup LargeBytes

\* Code units: 'A', U+00E9, U+20AC, the byte order mark U+FEFF, and the two
\* halves of U+1F600.
UnitVals == {Ord["A"], 233, 8364, 65279, 55357, 56832}

TextInputs == SeqsUpTo(UnitVals, MaxTextLen)

\* Characters of a text handed to decode: inside the URL-safe alphabet
\* ('Q', '-', '_') and outside it ('+', '=', ' ', '!').
B64Vals == {Ord["Q"], Ord["-"], Ord["_"], Ord["+"], Ord["="], Ord[" "], Ord["!"]}

B64Inputs == SeqsUpTo(B64Vals, MaxB64Len)

\* JSON values: the primitives, strings that need every kind of escape, the
\* empty array and object, and arrays and objects nested JsonDepth deep.
JsonAtoms ==
  {JNull, JBool(TRUE), JBool(FALSE), JNum(0), JNum(-12), JNum(305),
   JStr(<<>>), JStr(Chars(<<"a", "QUOTE", "BACKSLASH", "/">>)),
   JStr(<<10, 1, 233>>), JStr(<<65279, 55357>>), JStr(<<55357, 56832>>),
   JArr(<<>>), JObj(<<>>)}

RECURSIVE JsonValues(_)
JsonValues(depth) ==
  IF depth = 0 THEN JsonAtoms
  ELSE LET inner == JsonValues(depth - 1)
       IN JsonAtoms
            \cup {JArr(<<x>>) : x \in inner}
            \cup {JArr(<<JNum(1), x>>) : x \in inner}
            \cup {JObj(<<[key |-> Chars(<<"a">>), val |-> x]>>) : x \in inner}
            \cup {JObj(<<[key |-> Chars(<<"t", "QUOTE">>), val |-> x],
                         [key |-> <<233>>, val |-> JBool(TRUE)]>>) : x \in inner}

JsonInputs == JsonValues(JsonDepth)


----------------------------------------------------------------------------
(* The caller *)

Init ==
  /\ \/ \E b \in BytesInputs : input = Ok("bytes", b)
     \/ \E t \in TextInputs \cup B64Inputs : input = Ok("str", t)
     \/ \E v \in JsonInputs : input = Ok("json", v)
  /\ val = input
  /\ hist = <<>>
  /\ handed = <<>>
  /\ call = Call("none", "none", <<>>)
  /\ host = <<>>

Encode ==
  /\ hist = <<>>
  /\ val.t \in {"str", "bytes"}
  /\ val' = encode(val)
  /\ hist' = Append(hist, "encode")
  /\ UNCHANGED <<input, handed, call, host>>

Decode ==
  /\ Len(hist) <= 1
  /\ val.t = "str"
  /\ val' = decode(val.v)
  /\ handed' = decodePadded(val.v)
  /\ hist' = Append(hist, "decode")
  /\ UNCHANGED <<input, call, host>>

DecodeToString ==
  /\ Len(hist) <= 1
  /\ val.t = "str"
  /\ Len(val.v) <= MaxDecodeLen
  /\ val' = decodeToString(val.v)
  /\ handed' = decodePadded(val.v)
  /\ hist' = Append(hist, "decodeToString")
  /\ UNCHANGED <<input, call, host>>

EncodeJSON ==
  /\ hist = <<>>
  /\ val.t = "json"
  /\ val' = encodeJSON(val.v)
  /\ hist' = Append(hist, "encodeJSON")
  /\ UNCHANGED <<input, handed, call, host>>

DecodeJSON ==
  /\ Len(hist) <= 1
  /\ val.t = "str"
  /\ Len(val.v) <= MaxDecodeLen
  /\ val' = decodeJSON(val.v)
  /\ handed' = decodePadded(val.v)
  /\ hist' = Append(hist, "decodeJSON")
  /\ UNCHANGED <<input, call, host>>

\* The second arguments a caller gives Buffer.from: none, encoding names
\* ("bogus" is a name the host does not know), byte offsets.
FromSeconds ==
  <<Undefined, Name("base64url"), Name("utf8"), Name("latin1"), Name("bogus"),
    Num(0), Num(1)>>
FromLengths == <<Undefined, Num(1)>>
Receivers == {"Buffer", "SubBuffer"}

\* Buffer.from(value, encodingOrOffset, length) on a string, a Uint8Array or
\* the ArrayBuffer of the same bytes.
CallBufferFrom ==
  /\ hist = <<>>
  /\ val.t \in {"str", "bytes"}
  /\ Len(val.v) <= MaxShimLen
  /\ \E this \in Receivers, kind \in {"same", "abuf"},
        e \in 1..Len(FromSeconds), l \in 1..Len(FromLengths) :
       /\ kind = "abuf" => val.t = "bytes"
       /\ LET value == IF kind = "abuf" THEN Ok("abuf", val.v) ELSE val
              encodingOrOffset == FromSeconds[e]
              length == FromLengths[l]
              did == BufferFrom(this, value, encodingOrOffset, length)
          IN /\ call' = Call("Buffer.from", this, <<value, encodingOrOffset, length>>)
             /\ val' = did.ret
             /\ host' = did.calls
  /\ hist' = Append(hist, "Buffer.from")
  /\ UNCHANGED <<input, handed>>

ToStringEncodings ==
  <<Undefined, Name("base64url"), Name("utf8"), Name("latin1"), Name("hex"),
    Name("bogus")>>
ToStringStarts == <<Undefined, Num(1)>>
ToStringEnds == <<Undefined, Num(2)>>

\* buf.toString(encoding, start, end) on a Buffer holding the caller's bytes.
CallBufferToString ==
  /\ hist = <<>>
  /\ val.t = "bytes"
  /\ Len(val.v) <= MaxShimLen
  /\ \E e \in 1..Len(ToStringEncodings), s \in 1..Len(ToStringStarts),
        n \in 1..Len(ToStringEnds) :
       LET this == Ok("buf", val.v)
           encoding == ToStringEncodings[e]
           start == ToStringStarts[s]
           end == ToStringEnds[n]
           did == BufferToString(this, encoding, start, end)
       IN /\ call' = Call("toString", this, <<encoding, start, end>>)
          /\ val' = did.ret
          /\ host' = did.calls
  /\ hist' = Append(hist, "toString")
  /\ UNCHANGED <<input, handed>>

Next ==
  \/ Encode
  \/ Decode
  \/ DecodeToString
  \/ EncodeJSON
  \/ DecodeJSON
  \/ CallBufferFrom
  \/ CallBufferToString

Spec == Init /\ [][Next]_vars

----------------------------------------------------------------------------
(* Properties *)

IsAlnum(c) ==
  \/ (c >= Ord["A"] /\ c <= Ord["Z"])
  \/ (c >= Ord["a"] /\ c <= Ord["z"])
  \/ (c >= Ord["0"] /\ c <= Ord["9"])

\* A-Z a-z 0-9 '-' '_'
IsUrlSafe(c) == IsAlnum(c) \/ c = Ord["-"] \/ c = Ord["_"]

AllUrlSafe(t) == \A i \in 1..Len(t) : IsUrlSafe(t[i])

\* The two outcomes are the same: both the same value, or both the same error.
SameOutcome(a, b) == a.t = b.t /\ a.v = b.v

SameArgs(as, bs) ==
  /\ Len(as) = Len(bs)
  /\ \A i \in 1..Len(as) : SameOutcome(as[i], bs[i])

IsBase64UrlName(a) == a.t = "name" /\ a.v = "base64url"

\* C1. Round trip: decoding what encode made of a byte sequence gives that
\* byte sequence back, element for element and of the same length.
RoundTrip ==
  (hist = <<"encode", "decode">> /\ input.t = "bytes")
    => (val.t = "bytes" /\ val.v = input.v)

\* A round trip of two bytes, whose standard Base64 is "+/8=".
RoundTripWitness ==
  /\ hist = <<"encode", "decode">>
  /\ input.t = "bytes"
  /\ input.v = <<251, 255>>
  /\ val.t = "bytes"

\* C2. Alphabet purity: whatever encode is given, bytes or text, every
\* character of its result is one of A-Z a-z 0-9 '-' '_'; none is '+', '/'
\* or '='.
AlphabetPurity ==
  (hist = <<"encode">> /\ val.t = "str")
    => \A i \in 1..Len(val.v) :
         /\ IsUrlSafe(val.v[i])
         /\ val.v[i] \notin {Ord["+"], Ord["/"], Ord["="]}

\* encode of a text whose standard Base64 is padded.
AlphabetPurityWitness ==
  /\ hist = <<"encode">>
  /\ input.t = "str"
  /\ input.v = <<233>>
  /\ Len(val.v) = 3

\* encode with the binary string made in one piece, no chunks.
encodeUnchunked(bytes) ==
  LET base64 == btoa([j \in 1..Len(bytes) |-> fromCharCode(bytes[j])])
  IN IF IsThrow(base64) THEN base64 ELSE Ok("str", toBase64Url(base64.v))

\* C3. Chunk-boundary stability: encode of a byte sequence, of a length at,
\* just under, just over or at twice the chunk size as of any other, is
\* what encoding the same bytes as one unchunked block gives.
ChunkBoundaryStable ==
  (hist = <<"encode">> /\ input.t = "bytes")
    => SameOutcome(val, encodeUnchunked(input.v))

\* encode of two whole chunks.
ChunkBoundaryWitness ==
  /\ hist = <<"encode">>
  /\ input.t = "bytes"
  /\ Len(input.v) = 2 * chunkSize
  /\ val.t = "str"

\* No lone surrogate: every high surrogate is followed by a low one and
\* every low surrogate preceded by a high one.
IsWellFormed(str) ==
  \A i \in 1..Len(str) :
    /\ IsHighSurrogate(str[i]) => (i < Len(str) /\ IsLowSurrogate(str[i + 1]))
    /\ IsLowSurrogate(str[i]) => (i > 1 /\ IsHighSurrogate(str[i - 1]))

\* C4. String round trip: decodeToString of what encode made of a string s
\* is s.  (Stated for the strings UTF-8 can hold, those without a lone
\* surrogate.)
StringRoundTrip ==
  (hist = <<"encode", "decodeToString">> /\ input.t = "str"
     /\ IsWellFormed(input.v))
    => (val.t = "str" /\ val.v = input.v)

\* C5. JSON round trip: decodeJSON of what encodeJSON made of a value of
\* the JSON data model is a value equal to it.
JSONRoundTrip ==
  hist = <<"encodeJSON", "decodeJSON">>
    => (val.t = "json" /\ val.v = input.v)

\* A round trip of a nested structure: an object inside an array.
JSONRoundTripWitness ==
  /\ hist = <<"encodeJSON", "decodeJSON">>
  /\ input.v.k = "arr"
  /\ Len(input.v.a) = 2
  /\ input.v.a[2].k = "obj"
  /\ Len(input.v.a[2].o) = 2
  /\ val.t = "json"

\* C6. Padding: for a text over the URL-safe alphabet of length 0, 2 or 3
\* mod 4, decode hands the standard decoder the text followed by 0, 2 or 1
\* '=' and nothing else, a string whose length is a multiple of 4, and
\* returns floor(3 * length / 4) bytes without error.
PaddingCorrect ==
  (hist = <<"decode">> /\ input.t = "str" /\ AllUrlSafe(input.v)
     /\ Len(input.v) % 4 # 1)
    => LET n == Len(input.v)
           pad == CASE n % 4 = 0 -> 0 [] n % 4 = 2 -> 2 [] n % 4 = 3 -> 1
       IN /\ Len(handed) = n + pad
          /\ Len(handed) % 4 = 0
          /\ \A i \in 1..n : handed[i] # Ord["="]
          /\ \A i \in (n + 1)..(n + pad) : handed[i] = Ord["="]
          /\ val.t = "bytes"
          /\ Len(val.v) = (3 * n) \div 4

\* decode of a text of length 3, which takes one '='.
PaddingWitness ==
  /\ hist = <<"decode">>
  /\ input.t = "str"
  /\ input.v = Chars(<<"Q", "-", "_">>)
  /\ Len(handed) = 4
  /\ val.t = "bytes"

\* C7 as claimed: decode of a text with a character outside the URL-safe
\* alphabet does not signal an error; it returns a byte sequence.
MalformedNotRejected ==
  (hist = <<"decode">> /\ input.t = "str" /\ ~AllUrlSafe(input.v))
    => val.t = "bytes"

\* The characters outside the URL-safe alphabet that atob takes: '+', '/',
\* '=' and ASCII whitespace.
IsTolerated(c) ==
  c \in {Ord["+"], Ord["/"], Ord["="]} \/ IsAsciiWhitespace(c)

\* C7, amended: decode validates nothing itself, the standard decoder it
\* calls does.  A text with a character that is neither URL-safe nor one of
\* '+', '/', '=', whitespace makes decode throw InvalidCharacterError; a
\* text over the URL-safe alphabet and '+', '/', of length 0, 2 or 3 mod 4,
\* is decoded without error, '+' as '-' and '/' as '_'.
MalformedHandling ==
  (hist = <<"decode">> /\ input.t = "str")
    => /\ (\E i \in 1..Len(input.v) :
             ~IsUrlSafe(input.v[i]) /\ ~IsTolerated(input.v[i]))
          => (val.t = "throw" /\ val.v = "InvalidCharacterError")
       /\ ((\A i \in 1..Len(input.v) :
              IsUrlSafe(input.v[i]) \/ input.v[i] \in {Ord["+"], Ord["/"]})
           /\ Len(input.v) % 4 # 1)
          => /\ val.t = "bytes"
             /\ Len(val.v) = (3 * Len(input.v)) \div 4
             /\ SameOutcome(val,
                  decode(replaceAll(replaceAll(input.v, Ord["+"], Ord["-"]),
                                    Ord["/"], Ord["_"])))

\* decode of "Q!" has thrown.
MalformedWitness ==
  /\ hist = <<"decode">>
  /\ input.t = "str"
  /\ input.v = Chars(<<"Q", "!">>)
  /\ val.t = "throw"

\* C8. The factory's type check: Buffer.from(value, "base64url") with a
\* value that is no string throws TypeError and calls neither decode nor
\* the original factory; with a string it gives what decode gives, as a
\* host buffer of exactly those bytes (an error of decode is the caller's).
FactoryTypeCheck ==
  (call.fn = "Buffer.from" /\ IsBase64UrlName(call.args[2]))
    => IF call.args[1].t # "str"
       THEN val.t = "throw" /\ val.v = "TypeError" /\ Len(host) = 0
       ELSE LET decoded == decode(call.args[1].v)
            IN /\ host[1].fn = "decode"
               /\ IF IsThrow(decoded) THEN SameOutcome(val, decoded)
                  ELSE val.t = "buf" /\ val.v = decoded.v

\* Buffer.from(bytes, "base64url") has thrown.
FactoryTypeCheckWitness ==
  /\ call.fn = "Buffer.from"
  /\ IsBase64UrlName(call.args[2])
  /\ call.args[1].t = "abuf"
  /\ Len(call.args[1].v) = 2
  /\ val.t = "throw"

\* C9. The factory's pass-through: a call whose second argument is not
\* "base64url" calls the original factory once, with the caller's receiver
\* and the caller's three arguments, and returns what it returns.
FactoryPassThrough ==
  (call.fn = "Buffer.from" /\ ~IsBase64UrlName(call.args[2]))
    => /\ Len(host) = 1
       /\ host[1].fn = "originalFrom"
       /\ host[1].this = call.this
       /\ SameArgs(Pad3(host[1].args), call.args)
       /\ SameOutcome(val, originalFrom(call.args[1], call.args[2], call.args[3]))

\* C10. The render method: toString("base64url") is encode of the
\* buffer's bytes; with any other encoding, or none, the original toString
\* is called on the same buffer with every argument of the caller
\* (encoding, start, end) and its result returned.
RenderPassThrough ==
  call.fn = "toString"
    => IF IsBase64UrlName(call.args[1])
       THEN SameOutcome(val, encode(Ok("bytes", call.this.v)))
       ELSE /\ Len(host) = 1
            /\ host[1].fn = "originalToString"
            /\ SameOutcome(host[1].this, call.this)
            /\ SameArgs(Pad3(host[1].args), call.args)
            /\ SameOutcome(val, originalToString(call.this, call.args[1],
                                                 call.args[2], call.args[3]))

====
